---- MODULE Spec2Model ----
(***************************************************************************)
(* anchorbot: the Room.timeline handler of src/index.ts (the newest        *)
(* revision, lines 124-215), as a state machine.                           *)
(*                                                                         *)
(* A string is a sequence of one-character strings, so that split(' '),    *)
(* join(' '), toLowerCase and replace(/[^a-z]/g, '') are computed on the   *)
(* characters.  A string literal of the code that is only ever sent, never *)
(* parsed (a notice text, a configured url or title), is a one-element     *)
(* sequence holding the whole literal.                                     *)
(***************************************************************************)
EXTENDS Naturals, Sequences, FiniteSets, Bags, TLC

VARIABLES
  alias,      \* Config.alias: the alias table built by readConfig
  roomState,  \* per room, the content stored under (AnchorViewEventType, '')
  event,      \* the event (with its room) of the invocation that ran last
  cmd,        \* its local cmd   (parts.shift())
  parts,      \* its local parts (body.split(' ') after the shift)
  ops,        \* the client calls it made, in order
  pending,    \* invocations suspended in `await fetch(...)`: a bag of frames
  streamers,  \* its local streamers, once `await resp.json()` assigned it
  pc,         \* where that invocation is: idle (none since the last return),
              \* returned, awaiting (suspended in the fetch), resumed (the
              \* fetch answered) or caught (the fetch threw)
  earlier     \* history: the sender's power level at the curator-only command
              \* handled before, and whether that command had an effect

vars == <<alias, roomState, event, cmd, parts, ops, pending, streamers, pc, earlier>>

----------------------------------------------------------------------------
(* Bounds of the model *)

\* most argument tokens after the command token in a generated body
MaxArgs == 2

\* most !streamer invocations suspended in their fetch at once
MaxPending == 1

----------------------------------------------------------------------------
(* Strings *)

SP == " "

UpperCase == <<"A","B","C","D","E","F","G","H","I","J","K","L","M",
               "N","O","P","Q","R","S","T","U","V","W","X","Y","Z">>

LowerCase == <<"a","b","c","d","e","f","g","h","i","j","k","l","m",
               "n","o","p","q","r","s","t","u","v","w","x","y","z">>

\* String.prototype.split(' '): cut at every single space, keep empty pieces
RECURSIVE SplitFrom(_, _, _, _)
SplitFrom(s, i, cur, acc) ==
  IF i > Len(s) THEN Append(acc, cur)
  ELSE IF s[i] = SP THEN SplitFrom(s, i + 1, <<>>, Append(acc, cur))
  ELSE SplitFrom(s, i + 1, Append(cur, s[i]), acc)

\* a split into words, which drops the empty pieces: split(/ +/) on a trimmed
\* body
split_words(s) ==
  LET word(t) == t # <<>>
  IN  SelectSeq(SplitFrom(s, 1, <<>>, <<>>), word)

split(s) == SplitFrom(s, 1, <<>>, <<>>)

\* a join with no separator: join('')
RECURSIVE join_glued(_)
join_glued(ps) ==
  IF ps = <<>> THEN <<>> ELSE ps[1] \o join_glued(Tail(ps))

\* Array.prototype.join(' ')
RECURSIVE join(_)
join(ps) ==
  IF ps = <<>> THEN <<>>
  ELSE IF Len(ps) = 1 THEN ps[1]
  ELSE ps[1] \o <<SP>> \o join(Tail(ps))

\* String.prototype.toLowerCase, one character
toLowerCase(c) ==
  IF \E i \in 1..Len(UpperCase) : UpperCase[i] = c
  THEN LowerCase[CHOOSE i \in 1..Len(UpperCase) : UpperCase[i] = c]
  ELSE c

isLowerLetter(c) == \E i \in 1..Len(LowerCase) : LowerCase[i] = c

\* a key that is lower-cased but keeps its hyphens and digits
RECURSIVE matchKey_lowerOnly(_)
matchKey_lowerOnly(s) ==
  IF s = <<>> THEN <<>> ELSE <<toLowerCase(Head(s))>> \o matchKey_lowerOnly(Tail(s))

\* matchKey = (s) => s.toLowerCase().replace(/[^a-z]/g, '')
RECURSIVE matchKey(_)
matchKey(s) ==
  IF s = <<>> THEN <<>>
  ELSE LET c == toLowerCase(Head(s))
       IN  (IF isLowerLetter(c) THEN <<c>> ELSE <<>>) \o matchKey(Tail(s))

----------------------------------------------------------------------------
(* Configuration: what readConfig returns *)

\* Config.rooms: the three rooms the bot joins
rooms == [anchor |-> "!anchor:woke", announcements |-> "!announcements:woke",
          curators |-> "!curators:woke"]

Rooms == {rooms.anchor, rooms.announcements, rooms.curators}

AnchorViewEventType == "net.woke.anchor.view"

\* Config.anchorUrl (the default of --anchor-server)
anchorUrl == <<"https://woke.net">>

\* `${pkg.name} v${pkg.version} (${pkg.homepage})` behind the robot emoji
botInfo == <<"(robot) ", "pkg.name", " v", "pkg.version", " (", "pkg.homepage", ")">>

\* Words typed in messages
W_demo == <<"d","e","m","o">>
W_Demo == <<"D","e","m","o">>
W_news == <<"n","e","w","s">>
W_cam  == <<"c","a","m">>
W_fill == <<"f","i","l","l">>
W_Fill == <<"F","i","l","l">>
W_now  == <<"n","o","w">>

\* argv.alias of the configuration in use: an embed without title (the
\* scenario of the documentation), an hls view with a title, and a live view
\* (no url field) whose title is the empty string
aliasConfig ==
  (W_demo :> [kind |-> "embed", url |-> <<"https://x/demo">>, fill |-> FALSE]) @@
  (W_news :> [kind |-> "hls", title |-> <<"Evening News">>,
              url |-> <<"https://x/news.m3u8">>, fill |-> TRUE]) @@
  (W_cam  :> [kind |-> "live", title |-> <<>>,
              hls |-> <<"https://x/cam.m3u8">>, dash |-> <<"https://x/cam.mpd">>])

----------------------------------------------------------------------------
(* Command tokens *)

T_bot          == <<"!","b","o","t">>
T_streamer     == <<"!","s","t","r","e","a","m","e","r">>
T_view         == <<"!","v","i","e","w">>
T_v            == <<"!","v">>
T_end          == <<"!","e","n","d">>
T_e            == <<"!","e">>
T_announce     == <<"!","a","n","n","o","u","n","c","e">>
T_a            == <<"!","a">>
\* a command name in another case, and the README's name of the announce
\* command: neither is a name the handler knows
T_View         == <<"!","V","i","e","w">>
T_announcement == <<"!","a","n","n","o","u","n","c","e","m","e","n","t">>

----------------------------------------------------------------------------
(* The client calls the handler makes *)

sendNotice(roomId, body) ==
  [call |-> "sendNotice", roomId |-> roomId, body |-> body]

sendStateEvent(roomId, eventType, content, stateKey) ==
  [call |-> "sendStateEvent", roomId |-> roomId, eventType |-> eventType,
   content |-> content, stateKey |-> stateKey]

setRoomTopic(roomId, topic) ==
  [call |-> "setRoomTopic", roomId |-> roomId, topic |-> topic]

sendMessage(roomId, content) ==
  [call |-> "sendMessage", roomId |-> roomId, content |-> content]

----------------------------------------------------------------------------
(* The Room.timeline handler, piece by piece *)

\* room.getMember(userId) of a user the room does not know
null == [null |-> TRUE]

\* if (!body): undefined (the content has no body) or the empty string
hasBody(content) == "body" \in DOMAIN content /\ content.body # <<>>

\* a gate that lets the anchor room in as well
curatorsRoom_orAnchor(roomId) == roomId \in {rooms.curators, rooms.anchor}

\* if (room.roomId != rooms.curators) return
curatorsRoom(roomId) == roomId = rooms.curators

\* an alias lookup whose result takes its fill from the second argument
resolveView_argFill(al, ps) ==
  IF ps[1] \in DOMAIN al
  THEN IF "fill" \in DOMAIN al[ps[1]]
       THEN [al[ps[1]] EXCEPT !.fill = (Len(ps) >= 2 /\ ps[2] = W_fill)]
       ELSE al[ps[1]]
  ELSE [kind |-> "embed", url |-> ps[1],
        fill |-> (Len(ps) >= 2 /\ ps[2] = W_fill)]

\* a fallback view that fills whenever a second argument is given
resolveView_anyFill(al, ps) ==
  IF ps[1] \in DOMAIN al THEN al[ps[1]]
  ELSE [kind |-> "embed", url |-> ps[1], fill |-> (Len(ps) >= 2)]

\* let view = alias.get(parts[0]); if (!view) view = {kind: 'embed', ...}
\* (parts[1] of a one-element array is undefined, which is not 'fill')
resolveView(al, ps) ==
  IF ps[1] \in DOMAIN al THEN al[ps[1]]
  ELSE [kind |-> "embed", url |-> ps[1],
        fill |-> (Len(ps) >= 2 /\ ps[2] = W_fill)]

\* the title of the earlier revision: view.title || view.url
viewTitle_bare(view) ==
  IF "title" \in DOMAIN view /\ view.title # <<>> THEN view.title
  ELSE IF "url" \in DOMAIN view THEN view.url
  ELSE <<"unknown">>

\* view.title || ('url' in view ? `<${view.url}>` : 'unknown')
viewTitle(view) ==
  IF "title" \in DOMAIN view /\ view.title # <<>> THEN view.title
  ELSE IF "url" \in DOMAIN view THEN <<"<">> \o view.url \o <<">">>
  ELSE <<"unknown">>

\* the catch block telling the curators room about the failure
catchOps_notifies ==
  << [call |-> "sendNotice", roomId |-> rooms.curators,
      body |-> <<"Failed to fetch streamers">>] >>

\* a !view that clears the view when it is given no argument
viewOps_clears(al, roomId, ps) ==
  IF Len(ps) = 0
  THEN << sendStateEvent(rooms.anchor, AnchorViewEventType, [kind |-> "offline"], ""),
          sendNotice(roomId, <<"Please use !end to clear the view.">>) >>
  ELSE << sendStateEvent(rooms.anchor, AnchorViewEventType, resolveView_anyFill(al, ps), "") >>

\* a !view that publishes to the room the command arrived in, as the earliest
\* revision did: sendStateEvent(room.roomId, ...)
viewOps_originRoom(al, roomId, ps) ==
  IF Len(ps) = 0
  THEN << sendNotice(roomId, <<"Please use !end to clear the view.">>) >>
  ELSE LET view == resolveView(al, ps)
       IN  << sendStateEvent(roomId, AnchorViewEventType, view, ""),
              sendNotice(rooms.anchor, <<"Now viewing: ">> \o viewTitle(view)),
              sendNotice(rooms.curators, <<"Now viewing: ">> \o viewTitle(view)) >>

\* the !view / !v branch
viewOps(al, roomId, ps) ==
  IF Len(ps) = 0
  THEN << sendNotice(roomId, <<"Please use !end to clear the view.">>) >>
  ELSE LET view == resolveView(al, ps)
       IN  << sendStateEvent(rooms.anchor, AnchorViewEventType, view, ""),
              sendNotice(rooms.anchor, <<"Now viewing: ">> \o viewTitle(view)),
              sendNotice(rooms.curators, <<"Now viewing: ">> \o viewTitle(view)) >>

\* an !end that tells the anchor room as well, as !view does
endOps_bothRooms ==
  << sendStateEvent(rooms.anchor, AnchorViewEventType, [kind |-> "offline"], ""),
     sendNotice(rooms.anchor, <<"Broadcast ended.">>),
     sendNotice(rooms.curators, <<"Broadcast ended.">>) >>

\* the !end / !e branch
endOps ==
  << sendStateEvent(rooms.anchor, AnchorViewEventType, [kind |-> "offline"], ""),
     sendNotice(rooms.curators, <<"Broadcast ended.">>) >>

\* the !announce / !a branch
announceOps(ps) ==
  LET announceText == join(ps)
  IN  << setRoomTopic(rooms.anchor, announceText),
         sendNotice(rooms.announcements, announceText),
         sendNotice(rooms.curators, <<"Announcement sent.">>) >>

\* a command chain that compares the lower-cased token: cmd.toLowerCase()
curatorOps_anyCase(al, roomId, c, ps) ==
  LET lc == [i \in 1..Len(c) |-> toLowerCase(c[i])]
  IN  IF ~curatorsRoom(roomId) THEN <<>>
      ELSE IF lc = T_view \/ lc = T_v THEN viewOps(al, roomId, ps)
      ELSE IF lc = T_end \/ lc = T_e THEN endOps
      ELSE IF lc = T_announce \/ lc = T_a THEN announceOps(ps)
      ELSE <<>>

\* the curator-only commands, behind the room gate
curatorOps(al, roomId, c, ps) ==
  IF ~curatorsRoom(roomId) THEN <<>>
  ELSE IF c = T_view \/ c = T_v THEN viewOps(al, roomId, ps)
  ELSE IF c = T_end \/ c = T_e THEN endOps
  ELSE IF c = T_announce \/ c = T_a THEN announceOps(ps)
  ELSE <<>>

\* cmd === '!streamer' && parts[0]: the invocation goes on to await the fetch
awaitsFetch(c, ps) == c = T_streamer /\ Len(ps) >= 1 /\ ps[1] # <<>>

\* a !bot that answers in the anchor room (as the earlier revisions did)
\* instead of the room the message arrived in
commandOps_botToAnchor(al, roomId, c, ps) ==
  IF c = T_bot THEN << sendNotice(rooms.anchor, botInfo) >>
  ELSE IF awaitsFetch(c, ps) THEN <<>>
  ELSE curatorOps(al, roomId, c, ps)

\* what the invocation does up to its return or its first await
commandOps(al, roomId, c, ps) ==
  IF c = T_bot THEN << sendNotice(roomId, botInfo) >>
  ELSE IF awaitsFetch(c, ps) THEN <<>>
  ELSE curatorOps(al, roomId, c, ps)

\* streamers.find((s) => matchKey(s.slug) === matchKey(parts[0]))
find(dir, name) ==
  LET hits == {i \in 1..Len(dir) : matchKey(dir[i].slug) = matchKey(name)}
  IN  IF hits = {} THEN <<>>
      ELSE << dir[CHOOSE i \in hits : \A j \in hits : i <= j] >>

\* what the invocation does after `streamers = await resp.json()`
streamerOps(dir, name) ==
  LET found == find(dir, name)
  IN  IF found = <<>> THEN <<>>
      ELSE LET streamer == found[1]
           IN  << sendMessage(rooms.anchor,
                    [msgtype |-> "m.notice",
                     body |-> streamer.name \o <<": ">> \o anchorUrl
                              \o <<"/streamers/">> \o streamer.slug,
                     format |-> "net.woke.streamer",
                     streamer |-> streamer]) >>

\* catch (err) { console.warn('Failed to fetch streamers:', err); return }:
\* the client calls of the catch block
catchOps == <<>>

\* a handler that remembers the view it built for an unknown name:
\* alias.set(parts[0], view)
aliasAfter_caches(al, c, ps) ==
  IF (c = T_view \/ c = T_v) /\ Len(ps) >= 1 /\ ps[1] \notin DOMAIN al
  THEN [a \in DOMAIN al \cup {ps[1]} |->
          IF a \in DOMAIN al THEN al[a]
          ELSE [kind |-> "embed", url |-> ps[1],
                fill |-> (Len(ps) >= 2 /\ ps[2] = W_fill)]]
  ELSE al

\* the alias table after the invocation: the handler only calls alias.get
aliasAfter(al, c, ps) == al

\* the room state after the calls: a state event replaces the content stored
\* under its room (the handler only ever uses one event type and state key)
RECURSIVE applyOps(_, _)
applyOps(rs, os) ==
  IF os = <<>> THEN rs
  ELSE LET o == Head(os)
       IN  applyOps(IF o.call = "sendStateEvent"
                    THEN [rs EXCEPT ![o.roomId] = o.content] ELSE rs,
                    Tail(os))

----------------------------------------------------------------------------
(* Inputs: the events the transport delivers *)

\* the power level a curator needs (the threshold of the documentation and of
\* the earlier revision of the handler)
CuratorLevel == 50

\* room.getMember(event.getSender()) at the time of the event: unknown, just
\* below the curator level, at it
Members == {null, [powerLevel |-> CuratorLevel - 1], [powerLevel |-> CuratorLevel]}

CommandTokens == {T_bot, T_streamer, T_view, T_v, T_end, T_e,
                  T_announce, T_a, T_announcement, T_View}

\* argument tokens by position: an alias of each kind, a word that differs
\* from an alias in case only, and the empty token two spaces in a row leave
FirstArgs == {W_demo, W_news, W_cam, W_Demo, <<>>}
SecondArgs == {W_fill, W_Fill}
RestArgs == {W_now}

ArgsAt(i) == IF i = 1 THEN FirstArgs ELSE IF i = 2 THEN SecondArgs ELSE RestArgs

ArgLists ==
  UNION { {a \in [1..n -> FirstArgs \cup SecondArgs \cup RestArgs] :
             \A i \in 1..n : a[i] \in ArgsAt(i)} : n \in 0..MaxArgs }

\* a message as typed: the tokens with one space between neighbours
RECURSIVE Typed(_)
Typed(tokens) ==
  IF Len(tokens) = 1 THEN tokens[1]
  ELSE tokens[1] \o <<SP>> \o Typed(Tail(tokens))

\* event.getContent(): a typed command, an empty body, no body at all
Contents ==
  {[body |-> Typed(<<c>> \o a)] : c \in CommandTokens, a \in ArgLists}
    \cup {[body |-> <<>>], [msgtype |-> "m.image"]}

MessageEvents ==
  {[type |-> "m.room.message", roomId |-> r, member |-> m, content |-> c] :
     r \in Rooms, m \in Members, c \in Contents}

\* an event of another type, whose content the handler never reads
OtherEvents ==
  {[type |-> "m.room.member", roomId |-> r, member |-> null,
    content |-> [body |-> Typed(<<T_end>>)]] : r \in Rooms}

Events == MessageEvents \cup OtherEvents

\* what GET <apiUrl>/streamers/index.json may answer
S_demo == [slug |-> <<"D","e","-","m","o">>, name |-> <<"Demo TV">>]
S_news == [slug |-> <<"n","e","w","s">>, name |-> <<"News 24">>]

Directories == { <<>>, <<S_news>>, <<S_news, S_demo>> }

----------------------------------------------------------------------------
(* The state machine *)

NoEvent == [type |-> "none"]

\* a room in which no view was published yet
NoState == [unset |-> TRUE]

\* no curator-only command was handled yet
NoCommand == [none |-> TRUE]

Init ==
  /\ alias = aliasConfig
  /\ roomState = [r \in Rooms |-> NoState]
  /\ event = NoEvent
  /\ cmd = <<>>
  /\ parts = <<>>
  /\ ops = <<>>
  /\ pending = EmptyBag
  /\ streamers = <<>>
  /\ pc = "idle"
  /\ earlier = NoCommand

\* async function (event, room) {...}: one invocation, up to its return or
\* its first await
Handler(e) ==
  /\ pc = "idle"
  /\ event' = e
  /\ streamers' = <<>>
  /\ IF e.type # "m.room.message" \/ ~hasBody(e.content)
     THEN /\ cmd' = <<>>
          /\ parts' = <<>>
          /\ ops' = <<>>
          /\ alias' = alias
          /\ pending' = pending
          /\ pc' = "returned"
     ELSE LET tokens == split(e.content.body)
          IN  /\ cmd' = Head(tokens)
              /\ parts' = Tail(tokens)
              /\ ops' = commandOps(alias, e.roomId, Head(tokens), Tail(tokens))
              /\ alias' = aliasAfter(alias, Head(tokens), Tail(tokens))
              /\ IF Head(tokens) # T_bot /\ awaitsFetch(Head(tokens), Tail(tokens))
                 THEN /\ pending' = pending (+) SetToBag({[name |-> Tail(tokens)[1]]})
                      /\ pc' = "awaiting"
                 ELSE /\ pending' = pending
                      /\ pc' = "returned"
  /\ roomState' = applyOps(roomState, ops')

\* a listener that runs one invocation at a time: no event is handled while
\* an earlier invocation still waits for its fetch
Timeline_oneAtATime(e) == pending = EmptyBag /\ Handler(e)

\* client.on('Room.timeline', ...): every event gets an invocation of its own,
\* whatever the earlier invocations are waiting for
Timeline(e) == Handler(e)

\* catch (err) { console.warn(...); return }: the fetch or resp.json() threw
FetchFail(f) ==
  /\ pc = "idle"
  /\ BagIn(f, pending)
  /\ pending' = pending (-) SetToBag({f})
  /\ event' = NoEvent
  /\ cmd' = T_streamer
  /\ parts' = <<f.name>>
  /\ streamers' = <<>>
  /\ ops' = catchOps
  /\ pc' = "caught"
  /\ roomState' = applyOps(roomState, ops')
  /\ UNCHANGED <<alias, earlier>>

\* the fetch answered: the rest of the !streamer branch
FetchReturn(f, d) ==
  /\ pc = "idle"
  /\ BagIn(f, pending)
  /\ pending' = pending (-) SetToBag({f})
  /\ event' = NoEvent
  /\ cmd' = T_streamer
  /\ parts' = <<f.name>>
  /\ streamers' = d
  /\ ops' = streamerOps(d, f.name)
  /\ pc' = "resumed"
  /\ roomState' = applyOps(roomState, ops')
  /\ UNCHANGED <<alias, earlier>>

\* the invocation is over (or suspended): its locals are gone, the event loop
\* is free for the next event
Finish ==
  /\ pc # "idle"
  /\ pc' = "idle"
  /\ event' = NoEvent
  /\ cmd' = <<>>
  /\ parts' = <<>>
  /\ ops' = <<>>
  /\ streamers' = <<>>
  /\ UNCHANGED <<alias, roomState, pending>>

Return == Finish /\ UNCHANGED earlier

\* the transport delivers the next event once the event loop is free (the
\* model stops at MaxPending suspended invocations)
Deliver ==
  /\ pc = "idle"
  /\ UNCHANGED earlier
  /\ \E e \in Events : Timeline(e) /\ BagCardinality(pending') <= MaxPending

Next ==
  \/ Deliver
  \/ \E f \in BagToSet(pending) : FetchFail(f)
  \/ \E f \in BagToSet(pending), d \in Directories : FetchReturn(f, d)
  \/ Return

Spec == Init /\ [][Next]_vars

----------------------------------------------------------------------------
(* The same handler fed curator-only commands in the curators room from one *)
(* sender whose power level changes between commands; the history variable  *)
(* keeps the level and the effect of the command before.                    *)

CuratorOnlyTokens == {T_view, T_v, T_end, T_e, T_announce, T_a}

CuratorCommands ==
  {e \in MessageEvents :
     /\ e.roomId = rooms.curators
     /\ e.member # null
     /\ \E c \in CuratorOnlyTokens, a \in ArgLists : e.content = [body |-> Typed(<<c>> \o a)]}

DeliverCurator == pc = "idle" /\ UNCHANGED earlier /\ \E e \in CuratorCommands : Timeline(e)

ReturnNoting ==
  /\ Finish
  /\ earlier' = [powerLevel |-> event.member.powerLevel, effect |-> ops # <<>>]

NextLevels == DeliverCurator \/ ReturnNoting

SpecLevels == Init /\ [][NextLevels]_vars

----------------------------------------------------------------------------
(* The same handler with several !streamer fetches in flight: messages of   *)
(* at most one argument, from every room and sender.                        *)

\* most !streamer invocations suspended at once in this specification
MaxFetches == 2

AsyncEvents ==
  {e \in MessageEvents :
     \E c \in CommandTokens, a \in ArgLists :
        Len(a) <= 1 /\ e.content = [body |-> Typed(<<c>> \o a)]}

DeliverAsync ==
  /\ pc = "idle"
  /\ UNCHANGED earlier
  /\ \E e \in AsyncEvents : Timeline(e) /\ BagCardinality(pending') <= MaxFetches

NextAsync ==
  \/ DeliverAsync
  \/ \E f \in BagToSet(pending) : FetchFail(f)
  \/ \E f \in BagToSet(pending), d \in Directories : FetchReturn(f, d)
  \/ Return

SpecAsync == Init /\ [][NextAsync]_vars

----------------------------------------------------------------------------
(* Vocabulary of the properties *)

\* the invocation that ran last handled a message with a body
HandledMessage ==
  /\ pc \in {"returned", "awaiting"}
  /\ event.type = "m.room.message"
  /\ hasBody(event.content)

\* ... whose command token is a curator-only command
CuratorOnlyCommand == HandledMessage /\ cmd \in CuratorOnlyTokens

InCuratorsRoom == event.roomId = rooms.curators

SenderKnown == event.member # null

\* the sender is a curator: in the curators room at power level 50 or more
Authorized ==
  /\ InCuratorsRoom
  /\ SenderKnown
  /\ event.member.powerLevel >= CuratorLevel

ViewCommand == CuratorOnlyCommand /\ cmd \in {T_view, T_v}
EndCommand == CuratorOnlyCommand /\ cmd \in {T_end, T_e}
AnnounceCommand == CuratorOnlyCommand /\ cmd \in {T_announce, T_a}

StatePublishes == {i \in 1..Len(ops) : ops[i].call = "sendStateEvent"}
Notices == {i \in 1..Len(ops) : ops[i].call = "sendNotice"}
TopicChanges == {i \in 1..Len(ops) : ops[i].call = "setRoomTopic"}

----------------------------------------------------------------------------
(* C1 *)

\* C1: a curator-only command (!view, !v, !end, !e, !announce, !a) arriving in
\* a room other than the curators room makes the handler emit nothing: no
\* state publish, no topic change, no notice, whatever the sender's power
\* level and the arguments.
C1_NoOpOutsideCurators ==
  (CuratorOnlyCommand /\ ~InCuratorsRoom) => ops = <<>>

\* a curator at level 50 sends `!view demo fill` in the anchor room
C1_Witness ==
  /\ CuratorOnlyCommand
  /\ event.roomId = rooms.anchor
  /\ SenderKnown
  /\ event.member.powerLevel >= CuratorLevel
  /\ cmd = T_view
  /\ parts = <<W_demo, W_fill>>
  /\ ops = <<>>

----------------------------------------------------------------------------
(* C2 *)

\* C2: a curator-only command received in the curators room from a sender
\* whose power level there is below 50 makes the handler emit nothing (no
\* state publish, no topic change, no notice, not even the 'Please use !end'
\* notice of a zero-argument !view).
C2_NoOpBelowCuratorLevel ==
  (/\ CuratorOnlyCommand
   /\ InCuratorsRoom
   /\ SenderKnown
   /\ event.member.powerLevel < CuratorLevel) => ops = <<>>

----------------------------------------------------------------------------
(* C3 *)

\* C3: when the member lookup for the sender of a curator-only command gives
\* no member, the command is unauthorized: the handler returns normally and
\* emits nothing.
C3_UnknownSenderNoOp ==
  (CuratorOnlyCommand /\ ~SenderKnown) => (pc = "returned" /\ ops = <<>>)

----------------------------------------------------------------------------
(* C4 *)

\* C4: the power level is read afresh for each command: when a sender was at
\* level 50 or more for one curator-only command and is below 50 for the next
\* one, the earlier command took effect and the later one is a no-op; when
\* the level was below 50 and is 50 or more now, the earlier one was a no-op
\* and the later one takes effect.
C4_LevelReadAfresh ==
  (CuratorOnlyCommand /\ InCuratorsRoom /\ SenderKnown /\ earlier # NoCommand) =>
     /\ (earlier.powerLevel >= CuratorLevel /\ event.member.powerLevel < CuratorLevel)
          => (earlier.effect /\ ops = <<>>)
     /\ (earlier.powerLevel < CuratorLevel /\ event.member.powerLevel >= CuratorLevel)
          => (~earlier.effect /\ ops # <<>>)

----------------------------------------------------------------------------
(* C5 *)

\* C5: for every configured alias name a, an authorized `!view a`, with or
\* without further arguments such as `fill`, publishes as anchor room state
\* exactly the View configured for a, every field (title included) unchanged.
C5_AliasPublishedUnchanged ==
  (ViewCommand /\ Authorized /\ Len(parts) >= 1 /\ parts[1] \in DOMAIN aliasConfig) =>
     /\ Cardinality(StatePublishes) = 1
     /\ ops[1] = sendStateEvent(rooms.anchor, AnchorViewEventType,
                                aliasConfig[parts[1]], "")
     /\ roomState[rooms.anchor] = aliasConfig[parts[1]]

\* `!view demo fill`, demo being configured with fill = FALSE: the second
\* argument leaves the published fill FALSE
C5_Witness ==
  /\ ViewCommand /\ Authorized
  /\ parts = <<W_demo, W_fill>>
  /\ roomState[rooms.anchor] = [kind |-> "embed", url |-> <<"https://x/demo">>,
                                fill |-> FALSE]

----------------------------------------------------------------------------
(* C6 *)

\* C6: for every first argument s that is not a key of the alias table (exact,
\* case-sensitive match), an authorized `!view s [arg2]` publishes the View
\* {kind: embed, url: s, fill: f}, f being true exactly when the second
\* argument is the string "fill"; no title is set and s is not validated.
C6_FallbackView ==
  (ViewCommand /\ Authorized /\ Len(parts) >= 1 /\ parts[1] \notin DOMAIN aliasConfig) =>
     /\ Cardinality(StatePublishes) = 1
     /\ ops[1].call = "sendStateEvent"
     /\ ops[1].roomId = rooms.anchor
     /\ DOMAIN ops[1].content = {"kind", "url", "fill"}
     /\ ops[1].content.kind = "embed"
     /\ ops[1].content.url = parts[1]
     /\ ops[1].content.fill = (Len(parts) >= 2 /\ parts[2] = W_fill)
     /\ roomState[rooms.anchor] = ops[1].content

\* `!view Demo Fill`: Demo is no alias (demo is), Fill is not "fill"
C6_Witness ==
  /\ ViewCommand /\ Authorized
  /\ parts = <<W_Demo, W_Fill>>
  /\ roomState[rooms.anchor] = [kind |-> "embed", url |-> W_Demo, fill |-> FALSE]

----------------------------------------------------------------------------
(* C7 *)

\* the view an authorized !view published
PublishedView == ops[1].content

\* C7 as claimed: an authorized `!view <token>` with at least one argument
\* emits one state publish to the anchor room and two notices, to the anchor
\* room and to the curators room, both reading `Now viewing: ` followed by the
\* View's title when it has one and otherwise by its url verbatim.
C7_NoticeUrlVerbatim ==
  (ViewCommand /\ Authorized /\ Len(parts) >= 1) =>
     /\ Len(ops) = 3
     /\ ops[1].call = "sendStateEvent" /\ ops[1].roomId = rooms.anchor
     /\ LET text == <<"Now viewing: ">> \o
                    (IF "title" \in DOMAIN PublishedView /\ PublishedView.title # <<>>
                     THEN PublishedView.title
                     ELSE IF "url" \in DOMAIN PublishedView THEN PublishedView.url
                     ELSE <<"unknown">>)
        IN  /\ ops[2] = sendNotice(rooms.anchor, text)
            /\ ops[3] = sendNotice(rooms.curators, text)

\* C7 as amended: ... both reading `Now viewing: ` followed by the View's
\* title when it has a non-empty one, otherwise by its url between angle
\* brackets (`Now viewing: <https://x/demo>` for the alias demo), otherwise,
\* the View having no url, by `unknown`.
C7_NoticeUrlBracketed ==
  (ViewCommand /\ Authorized /\ Len(parts) >= 1) =>
     /\ Len(ops) = 3
     /\ ops[1].call = "sendStateEvent" /\ ops[1].roomId = rooms.anchor
     /\ LET text == <<"Now viewing: ">> \o
                    (IF "title" \in DOMAIN PublishedView /\ PublishedView.title # <<>>
                     THEN PublishedView.title
                     ELSE IF "url" \in DOMAIN PublishedView
                     THEN <<"<">> \o PublishedView.url \o <<">">>
                     ELSE <<"unknown">>)
        IN  /\ ops[2] = sendNotice(rooms.anchor, text)
            /\ ops[3] = sendNotice(rooms.curators, text)
     /\ parts[1] = W_demo =>
          ops[2].body = <<"Now viewing: ", "<", "https://x/demo", ">">>

\* the scenario: a curator at level 50 sends `!view demo` in the curators room
C7_Witness ==
  /\ ViewCommand /\ Authorized
  /\ cmd = T_view
  /\ parts = <<W_demo>>
  /\ event.member.powerLevel = CuratorLevel
  /\ Len(ops) = 3

----------------------------------------------------------------------------
(* C8 *)

NoArgViewNotice(roomId) == sendNotice(roomId, <<"Please use !end to clear the view.">>)

\* C8: `!view` (or `!v`) with zero arguments never publishes state: when it is
\* accepted, the only outbound operation is one notice 'Please use !end to
\* clear the view.' to the room the message arrived in, and the anchor room's
\* view state is left as it was.
C8_NoArgViewOnlyNotices ==
  [][ (pc' = "returned" /\ event'.type = "m.room.message" /\ hasBody(event'.content)
         /\ cmd' \in {T_view, T_v} /\ parts' = <<>>) =>
        /\ roomState' = roomState
        /\ \A i \in 1..Len(ops') : ops'[i].call # "sendStateEvent"
        /\ ops' \in {<<>>, <<NoArgViewNotice(event'.roomId)>>}
        /\ (event'.roomId = rooms.curators /\ event'.member # null
              /\ event'.member.powerLevel >= CuratorLevel)
             => ops' = <<NoArgViewNotice(event'.roomId)>> ]_vars

\* a curator sends `!v` while the anchor room shows the alias news
C8_Witness ==
  /\ ViewCommand /\ Authorized
  /\ cmd = T_v
  /\ parts = <<>>
  /\ ops = <<NoArgViewNotice(rooms.curators)>>
  /\ roomState[rooms.anchor] = aliasConfig[W_news]

----------------------------------------------------------------------------
(* C9 *)

\* C9: an authorized `!end` (or `!e`), whatever its arguments and whatever
\* View was published before, emits exactly one state publish of
\* {kind: offline} to the anchor room and exactly one notice, to the curators
\* room, and nothing else.
C9_EndPublishesOffline ==
  [][ (pc' = "returned" /\ event'.type = "m.room.message" /\ hasBody(event'.content)
         /\ cmd' \in {T_end, T_e}
         /\ event'.roomId = rooms.curators /\ event'.member # null
         /\ event'.member.powerLevel >= CuratorLevel) =>
        /\ Len(ops') = 2
        /\ ops'[1] = sendStateEvent(rooms.anchor, AnchorViewEventType,
                                    [kind |-> "offline"], "")
        /\ ops'[2].call = "sendNotice"
        /\ ops'[2].roomId = rooms.curators
        /\ roomState' = [roomState EXCEPT ![rooms.anchor] = [kind |-> "offline"]] ]_vars

\* `!e demo fill` from a curator
C9_Witness ==
  /\ EndCommand /\ Authorized
  /\ cmd = T_e
  /\ parts = <<W_demo, W_fill>>
  /\ Len(ops) = 2
  /\ roomState[rooms.anchor] = [kind |-> "offline"]

----------------------------------------------------------------------------
(* C10 *)

\* the body behind the command token and the one space after it
RestOfBody == SubSeq(event.content.body, Len(cmd) + 2, Len(event.content.body))

\* C10: an authorized `!announce <words...>` (or `!a`) sets the anchor room's
\* topic to the argument tokens joined by single spaces (the body behind the
\* command token and its space), sends that text as one notice to the
\* announcements room and one notice `Announcement sent.` to the curators
\* room: one topic change, two notices, no state publish.
C10_Announce ==
  (AnnounceCommand /\ Authorized) =>
     /\ ops = << setRoomTopic(rooms.anchor, RestOfBody),
                 sendNotice(rooms.announcements, RestOfBody),
                 sendNotice(rooms.curators, <<"Announcement sent.">>) >>
     /\ Cardinality(TopicChanges) = 1
     /\ Cardinality(Notices) = 2
     /\ StatePublishes = {}

\* `!announce Demo fill`: two words, one space between them
C10_Witness ==
  /\ AnnounceCommand /\ Authorized
  /\ cmd = T_announce
  /\ parts = <<W_Demo, W_fill>>
  /\ ops[1] = setRoomTopic(rooms.anchor, <<"D","e","m","o"," ","f","i","l","l">>)

----------------------------------------------------------------------------
(* C11 *)

\* C11: `!bot` received in any joined room from any sender, at any power
\* level and with any trailing arguments, produces exactly one outbound
\* operation: one notice, to the room the message arrived in, carrying the
\* fixed name/version/homepage string; no state publish, no topic change.
C11_BotOneNotice ==
  [][ (pc' = "returned" /\ event'.type = "m.room.message" /\ hasBody(event'.content)
         /\ cmd' = T_bot) =>
        /\ ops' = << [call |-> "sendNotice", roomId |-> event'.roomId, body |-> botInfo] >>
        /\ roomState' = roomState ]_vars

\* `!bot demo fill` in the announcements room from a sender the room does not
\* know, while the anchor room shows a view
C11_Witness ==
  /\ HandledMessage
  /\ cmd = T_bot
  /\ parts = <<W_demo, W_fill>>
  /\ event.roomId = rooms.announcements
  /\ event.member = null
  /\ Len(ops) = 1
  /\ ops[1].roomId = rooms.announcements
  /\ roomState[rooms.anchor] = aliasConfig[W_demo]

----------------------------------------------------------------------------
(* C12 *)

IsLetter(c) ==
  \E i \in 1..Len(LowerCase) : c = LowerCase[i] \/ c = UpperCase[i]

\* a name stripped of its non-letters, then lower-cased
Normalized(s) ==
  LET letters == SelectSeq(s, IsLetter)
  IN  [i \in 1..Len(letters) |->
         IF \E k \in 1..Len(UpperCase) : UpperCase[k] = letters[i]
         THEN LowerCase[CHOOSE k \in 1..Len(UpperCase) : UpperCase[k] = letters[i]]
         ELSE letters[i]]

\* the entries of the fetched directory that the name of the command matches
Matching == {i \in 1..Len(streamers) :
               Normalized(streamers[i].slug) = Normalized(parts[1])}

\* C12: `!streamer <name>` runs from any joined room for any sender, with no
\* authorization check (it always goes on to the fetch); when the fetched
\* directory holds an entry whose slug, lower-cased and stripped of
\* non-letters, equals <name> treated alike, exactly one structured message
\* referencing that entry goes to the anchor room; when no entry matches, no
\* message is sent; in neither case is state published.
C12_StreamerLookup ==
  /\ (HandledMessage /\ cmd = T_streamer /\ Len(parts) >= 1 /\ parts[1] # <<>>) =>
        /\ pc = "awaiting"
        /\ ops = <<>>
        /\ BagIn([name |-> parts[1]], pending)
  /\ pc = "resumed" =>
        /\ StatePublishes = {}
        /\ IF Matching = {} THEN ops = <<>>
           ELSE /\ Len(ops) = 1
                /\ ops[1].call = "sendMessage"
                /\ ops[1].roomId = rooms.anchor
                /\ \E i \in Matching : ops[1].content.streamer = streamers[i]

\* `!streamer demo` and the directory holds the slug De-mo behind another
\* entry: the hyphen is stripped, the D lower-cased
C12_Witness ==
  /\ pc = "resumed"
  /\ parts = <<W_demo>>
  /\ streamers = <<S_news, S_demo>>
  /\ Len(ops) = 1
  /\ ops[1].roomId = rooms.anchor
  /\ ops[1].content.streamer = S_demo

----------------------------------------------------------------------------
(* C13 *)

\* C13: when the directory fetch of `!streamer` fails (the request or the JSON
\* decoding throws), the command is abandoned: the invocation ends without
\* raising, emits no message, notice, topic change or state publish to any
\* room, and does not retry (it is no longer waiting for a fetch).
C13_FetchFailureSwallowed ==
  [][ (pc = "idle" /\ pc' = "caught") =>
        /\ ops' = <<>>
        /\ roomState' = roomState
        /\ BagCardinality(pending') = BagCardinality(pending) - 1
        /\ ~BagIn([name |-> parts'[1]], pending')
             \/ CopiesIn([name |-> parts'[1]], pending')
                  = CopiesIn([name |-> parts'[1]], pending) - 1 ]_vars

\* the fetch of `!streamer demo` threw while another fetch is still pending
C13_Witness ==
  /\ pc = "caught"
  /\ parts = <<W_demo>>
  /\ ops = <<>>
  /\ BagCardinality(pending) = 1

----------------------------------------------------------------------------
(* C14 *)

\* C14: a `!streamer` invocation whose fetch is slow or never answers stalls
\* only itself: every message delivered while fetches are pending (!bot,
\* !view, !end, !announce, another !streamer, ...) is still handled and emits
\* its outbound operations, for any number of pending fetches.
C14_PendingFetchStallsNothing ==
  /\ (pc = "idle" /\ pending # EmptyBag) =>
        \A e \in AsyncEvents : ENABLED Timeline(e)
  /\ (HandledMessage /\ pc = "returned" /\ pending # EmptyBag) =>
        /\ cmd = T_bot => Len(ops) = 1
        /\ (InCuratorsRoom /\ cmd \in {T_end, T_e}) => Len(ops) = 2
        /\ (InCuratorsRoom /\ cmd \in {T_announce, T_a}) => Len(ops) = 3
        /\ (InCuratorsRoom /\ cmd \in {T_view, T_v}) =>
              Len(ops) = (IF parts = <<>> THEN 1 ELSE 3)

\* `!end` from a curator takes effect while two fetches are pending (the
\* second `!streamer` went on to its own fetch behind the first)
C14_Witness ==
  /\ EndCommand /\ Authorized
  /\ BagCardinality(pending) = 2
  /\ Len(ops) = 2
  /\ roomState[rooms.anchor] = [kind |-> "offline"]

----------------------------------------------------------------------------
(* C15 *)

\* the command names the handler compares the first token with
RecognizedTokens == {T_bot, T_streamer, T_view, T_v, T_end, T_e, T_announce, T_a}

----------------------------------------------------------------------------
(* C16 *)

\* C16: every state event the bot publishes has the event type
\* net.woke.anchor.view, the empty state key and the anchor room as target;
\* the curators room, the announcements room and the room of the message
\* never receive state.
C16_StateOnlyToAnchor ==
  /\ \A i \in StatePublishes :
        /\ ops[i].eventType = "net.woke.anchor.view"
        /\ ops[i].stateKey = ""
        /\ ops[i].roomId = rooms.anchor
  /\ roomState[rooms.curators] = NoState
  /\ roomState[rooms.announcements] = NoState

\* `!v news` arrived in the curators room; the state went to the anchor room
C16_Witness ==
  /\ HandledMessage
  /\ cmd = T_v
  /\ parts = <<W_news>>
  /\ event.roomId = rooms.curators
  /\ StatePublishes = {1}
  /\ ops[1].roomId = rooms.anchor
  /\ roomState[rooms.curators] = NoState

----------------------------------------------------------------------------
(* C17 *)

\* C17: the body is cut at every single space and nothing is collapsed: there
\* is one argument token per space of the body, empty ones included, and the
\* tokens put back together with single spaces are the body; `!view` followed
\* by a space has one, empty, argument, and the first token after the command
\* name, even when empty, is the one resolved as the view target.
C17_SplitKeepsEmptyTokens ==
  HandledMessage =>
    LET body == event.content.body
    IN  /\ Len(parts) = Cardinality({i \in 1..Len(body) : body[i] = SP})
        /\ \A k \in 1..Len(parts) : \A i \in 1..Len(parts[k]) : parts[k][i] # SP
        /\ \A i \in 1..Len(cmd) : cmd[i] # SP
        /\ Typed(<<cmd>> \o parts) = body
        /\ (cmd \in {T_view, T_v} /\ InCuratorsRoom /\ parts # <<>> /\ parts[1] = <<>>) =>
              /\ ops[1].call = "sendStateEvent"
              /\ ops[1].content =
                   [kind |-> "embed", url |-> <<>>,
                    fill |-> (Len(parts) >= 2 /\ parts[2] = W_fill)]

\* `!view ` (one trailing space) from a curator: the empty token is the url
C17_Witness ==
  /\ HandledMessage
  /\ Authorized
  /\ cmd = T_view
  /\ event.content.body = T_view \o <<SP>>
  /\ parts = << <<>> >>
  /\ roomState[rooms.anchor] = [kind |-> "embed", url |-> <<>>, fill |-> FALSE]

----------------------------------------------------------------------------
(* C18 *)

\* C18: the view state of the anchor room follows the authorized commands
\* only: an authorized `!view` with arguments sets it to the View of that
\* command, an authorized `!end` sets it to offline, and every other step
\* (!bot, !streamer and its fetch, !announce, `!view` without arguments,
\* unrecognized and unauthorized commands) leaves it unchanged.
C18_ViewStateFollowsAuthorized ==
  [][ pc = "idle" =>
        IF Authorized' /\ ViewCommand' /\ parts' # <<>>
        THEN roomState' = [roomState EXCEPT ![rooms.anchor] = resolveView(alias, parts')]
        ELSE IF Authorized' /\ EndCommand'
        THEN roomState' = [roomState EXCEPT ![rooms.anchor] = [kind |-> "offline"]]
        ELSE roomState' = roomState ]_vars

----------------------------------------------------------------------------
(* C19 *)

\* C19: the alias table is never modified after startup: whatever the
\* commands, their senders and their arguments, every alias resolves to the
\* View it was configured with and no alias is added or removed.
C19_AliasTableFixed ==
  /\ DOMAIN alias = DOMAIN aliasConfig
  /\ \A a \in DOMAIN aliasConfig : alias[a] = aliasConfig[a]

\* `!view Demo fill` from a curator published a view built for a name that is
\* no alias; the table still holds the configured aliases only
C19_Witness ==
  /\ HandledMessage
  /\ Authorized
  /\ cmd = T_view
  /\ parts = <<W_Demo, W_fill>>
  /\ roomState[rooms.anchor] = [kind |-> "embed", url |-> W_Demo, fill |-> TRUE]
  /\ W_Demo \notin DOMAIN alias

====
